---- MODULE Spec2Model ----
(***************************************************************************)
(* Design heuristic evaluator: the ImageUpload component (drop zone, URL   *)
(* inputs, handleAnalysis), the App component that holds the results, and  *)
(* the analysis service the component posts to.                            *)
(*                                                                         *)
(* Texts that the code trims are sequences of one-character strings.       *)
(* Heuristic scores are kept in tenths (5.0 is 50), overall scores too     *)
(* (50 points is 500), so that toFixed is a real conversion.               *)
(***************************************************************************)
EXTENDS Integers, Sequences, FiniteSets, TLC

VARIABLES
    mode,             \* App: 'single' | 'comparison'
    analysisResult,   \* App: DesignAnalysis | null
    comparisonResult, \* App: ComparisonAnalysis | null
    uploadedImages,   \* App: images stored next to the result
    isAnalyzing,      \* App
    images,           \* ImageUpload: held images
    error,            \* ImageUpload: error message
    inputMode,        \* ImageUpload: 'upload' | 'url'
    url,              \* ImageUpload: first URL input
    comparisonUrl,    \* ImageUpload: second URL input
    inflight,         \* axios.post calls awaiting their response
    isGeneratingPDF,  \* AnalysisResult / ComparisonResult on display
    pdfExports        \* PDF generations awaiting their end

vars == <<mode, analysisResult, comparisonResult, uploadedImages, isAnalyzing,
          images, error, inputMode, url, comparisonUrl, inflight,
          isGeneratingPDF, pdfExports>>

pdfVars == <<isGeneratingPDF, pdfExports>>

appVars == <<mode, analysisResult, comparisonResult, uploadedImages, isAnalyzing>>

null == [null |-> TRUE]

(***************************************************************************)
(* Bounds of the model.                                                    *)
(***************************************************************************)
MaxInFlight == 2
MaxDrop == 3
MaxExports == 2

(***************************************************************************)
(* Files and the drop zone.                                                *)
(***************************************************************************)
maxSize == 10 * 1024 * 1024

acceptExtensions == {".jpeg", ".jpg", ".png", ".gif", ".bmp", ".webp"}

File(name, ext, type, size) ==
    [name |-> name, ext |-> ext, type |-> type, size |-> size]

\* The files a user can drop: an image at the size limit, an empty image,
\* an image one byte over the limit and a document that is no image.
okFile == File("a.png", ".png", <<"image", "png">>, maxSize)
emptyFile == File("empty.png", ".png", <<"image", "png">>, 0)
bigFile == File("big.jpg", ".jpg", <<"image", "jpeg">>, maxSize + 1)
pdfFile == File("doc.pdf", ".pdf", <<"application", "pdf">>, 1)

Files == {okFile, emptyFile, bigFile, pdfFile}

\* accept: {'image/*': [extensions]}: the media type matches image/* or the
\* file name ends in one of the extensions.
fileAccepted(f) == f.type[1] = "image" \/ f.ext \in acceptExtensions

\* fileMatchSize refusing a file of exactly maxSize.
fileMatchSizeStrict(f) == f.size < maxSize

\* maxSize option (no minSize is given, so the smallest size is 0).
fileMatchSize(f) == f.size <= maxSize

multiple == mode = "comparison"

\* The files the drop zone hands to onDrop: those that pass accept and
\* maxSize; all are refused when multiple is false and more than one passed.
acceptedFiles(dropped) ==
    LET ok(f) == fileAccepted(f) /\ fileMatchSize(f)
        pass == SelectSeq(dropped, ok)
    IN  IF ~multiple /\ Len(pass) > 1 THEN <<>> ELSE pass

slice(s, n) == IF Len(s) <= n THEN s ELSE SubSeq(s, 1, n)

UploadedImage(f) == [file |-> f, preview |-> f.name]

maxImages == IF mode = "single" THEN 1 ELSE 2
needsMoreImages == Len(images) < maxImages

Range(s) == {s[i] : i \in DOMAIN s}

\* One drop: a sequence of 1..MaxDrop distinct files.
RECURSIVE DropsOfLen(_, _)
DropsOfLen(files, n) ==
    IF n = 0 THEN {<<>>}
    ELSE {Append(s, f) : s \in DropsOfLen(files, n - 1), f \in files}

Drops(files) ==
    {d \in UNION {DropsOfLen(files, n) : n \in 1..MaxDrop} :
        Cardinality(Range(d)) = Len(d)}

(***************************************************************************)
(* Text of the URL inputs.                                                 *)
(***************************************************************************)
isSpace(c) == c = " "

\* String.prototype.trim: white space is removed from both ends.
RECURSIVE trimStart(_)
trimStart(s) ==
    IF s # <<>> /\ isSpace(Head(s)) THEN trimStart(Tail(s)) ELSE s

RECURSIVE trimEnd(_)
trimEnd(s) ==
    IF s # <<>> /\ isSpace(s[Len(s)]) THEN trimEnd(SubSeq(s, 1, Len(s) - 1)) ELSE s

trim(s) == trimEnd(trimStart(s))

\* What a user types into a URL input.
UrlInputs == {<<>>, <<" ">>, <<"a">>, <<" ", "a", " ">>}

\* The inputs explored together with uploads.
FewUrlInputs == {<<>>, <<" ", "a", " ">>}

(***************************************************************************)
(* ImageUpload: requests.                                                  *)
(***************************************************************************)
uploadTimeout == 60000
urlTimeout == 120000
urlComparisonTimeout == 180000

\* canAnalyze comparing the URL inputs untrimmed.
canAnalyzeUntrimmed ==
    IF inputMode = "url"
    THEN IF mode = "single" THEN url # <<>>
         ELSE url # <<>> /\ comparisonUrl # <<>>
    ELSE IF mode = "single" THEN Len(images) = 1
         ELSE Len(images) = 2

canAnalyze ==
    IF inputMode = "url"
    THEN IF mode = "single" THEN trim(url) # <<>>
         ELSE trim(url) # <<>> /\ trim(comparisonUrl) # <<>>
    ELSE IF mode = "single" THEN Len(images) = 1
         ELSE Len(images) = 2

\* endpoint chosen from mode alone.
endpointByModeOnly == IF mode = "single" THEN "/analyze" ELSE "/compare"

\* The URL the request is posted to.
endpoint ==
    IF inputMode = "url"
    THEN IF mode = "single" THEN "/analyze-url" ELSE "/compare-urls"
    ELSE IF mode = "single" THEN "/analyze" ELSE "/compare"

\* body with the two images of a comparison in the opposite fields.
bodyCrossed ==
    IF inputMode = "url"
    THEN IF mode = "single" THEN [url |-> trim(url)]
         ELSE [url |-> trim(url), comparison_url |-> trim(comparisonUrl)]
    ELSE IF mode = "single" THEN [file |-> images[1].file]
         ELSE [design_a |-> images[2].file, design_b |-> images[1].file]

\* The JSON body or the fields of the form data.
body ==
    IF inputMode = "url"
    THEN IF mode = "single"
         THEN [url |-> trim(url)]
         ELSE [url |-> trim(url), comparison_url |-> trim(comparisonUrl)]
    ELSE IF mode = "single"
         THEN [file |-> images[1].file]
         ELSE [design_a |-> images[1].file, design_b |-> images[2].file]

\* timeout with one value per input mode.
timeoutPerInputMode == IF inputMode = "url" THEN urlTimeout ELSE uploadTimeout

\* The timeout option, in milliseconds.
timeout ==
    IF inputMode = "url"
    THEN IF mode = "single" THEN urlTimeout ELSE urlComparisonTimeout
    ELSE uploadTimeout

\* request keeping no images for its completion callback.
requestWithoutImages ==
    [endpoint |-> endpoint, body |-> body, timeout |-> timeout, mode |-> mode,
     images |-> <<>>]

\* The axios.post call handleAnalysis makes, with what its continuation keeps
\* from the render it was created in (mode, and the images it hands on).
request ==
    [endpoint |-> endpoint, body |-> body, timeout |-> timeout,
     mode |-> mode, images |-> IF inputMode = "url" THEN <<>> ELSE images]

(***************************************************************************)
(* The analysis service behind /analyze, /analyze-url, /compare and        *)
(* /compare-urls: heuristic schema, response parser, evaluators and        *)
(* transport boundary.                                                     *)
(***************************************************************************)
HeuristicKeys ==
    << "visibility_of_system_status", "match_system_real_world",
       "user_control_freedom", "consistency_standards", "error_prevention",
       "recognition_rather_than_recall", "flexibility_efficiency",
       "aesthetic_minimalist_design", "error_recovery", "help_documentation",
       "color_accessibility_usage", "typography_hierarchy",
       "design_token_consistency", "brand_voice_expression",
       "responsive_adaptability", "interaction_feedback" >>

KeySet == Range(HeuristicKeys)

RECURSIVE SumOver(_, _)
SumOver(f, keys) ==
    IF keys = {} THEN 0
    ELSE LET k == CHOOSE x \in keys : TRUE
         IN  f[k] + SumOver(f, keys \ {k})

clamp(x, lo, hi) == IF x < lo THEN lo ELSE IF x > hi THEN hi ELSE x

\* round(n / d) for d > 0, halves away from zero.
roundDiv(n, d) ==
    IF n >= 0 THEN (2 * n + d) \div (2 * d) ELSE -((2 * (-n) + d) \div (2 * d))

tieThreshold == 2

\* overall_score = round(mean(scores) * 10) clamped to [0, 100]; scores are in
\* tenths, so mean * 10 is sum / 16. The result is in points.
overallScore(scores) ==
    clamp(roundDiv(SumOver(scores, DOMAIN scores), Cardinality(DOMAIN scores)), 0, 100)

Failure(kind) == [ok |-> FALSE, kind |-> kind]

\* parseResponse keeping the overall score the model reported.
parseResponseTrusting(raw) ==
    IF raw.kind # "json" THEN Failure("MalformedResponse")
    ELSE IF DOMAIN raw.heuristic_scores # KeySet THEN Failure("MalformedResponse")
    ELSE IF \E k \in KeySet : raw.heuristic_scores[k] < 0 \/ raw.heuristic_scores[k] > 100
         THEN Failure("ScoreOutOfRange")
    ELSE [ok |-> TRUE,
          analysis |-> [overall_score |-> raw.overall_score,
                        heuristic_scores |-> raw.heuristic_scores,
                        heuristic_keys |-> raw.heuristic_keys,
                        summary |-> raw.summary]]

\* Parser: all 16 keys and no other, every score in [0, 10], the overall
\* score recomputed whatever the model reported.
parseResponse(raw) ==
    IF raw.kind # "json" THEN Failure("MalformedResponse")
    ELSE IF DOMAIN raw.heuristic_scores # KeySet THEN Failure("MalformedResponse")
    ELSE IF \E k \in KeySet : raw.heuristic_scores[k] < 0 \/ raw.heuristic_scores[k] > 100
         THEN Failure("ScoreOutOfRange")
    ELSE [ok |-> TRUE,
          analysis |-> [overall_score |-> 10 * overallScore(raw.heuristic_scores),
                        heuristic_scores |-> raw.heuristic_scores,
                        heuristic_keys |-> raw.heuristic_keys,
                        summary |-> raw.summary]]

\* Input validation of the single-design evaluator.
validImage(f) == f.size > 0 /\ f.type[1] = "image" /\ f.size <= maxSize
validUrl(u) == u # <<>>

\* Single-design evaluator: validate, call the model once, parse.
evaluateSingle(inputOk, out) ==
    IF ~inputOk THEN Failure("InvalidInput")
    ELSE IF out.kind = "unreachable" THEN Failure("UnreachableURL")
    ELSE IF out.kind = "unavailable" THEN Failure("UpstreamUnavailable")
    ELSE parseResponse(out)

\* decideWinner with a tie only when design A is not behind.
decideWinnerFirstFavoured(scoreA, scoreB) ==
    IF scoreA >= scoreB /\ scoreA - scoreB < 10 * tieThreshold THEN "tie"
    ELSE IF scoreA > scoreB THEN "design_a" ELSE "design_b"

\* decideWinner with a gap of exactly the threshold still a tie.
decideWinnerInclusive(scoreA, scoreB) ==
    IF (IF scoreA >= scoreB THEN scoreA - scoreB ELSE scoreB - scoreA) <= 10 * tieThreshold
    THEN "tie"
    ELSE IF scoreA > scoreB THEN "design_a" ELSE "design_b"

\* Winner of a comparison from the two overall scores (in tenths of a point).
decideWinner(scoreA, scoreB) ==
    IF (IF scoreA >= scoreB THEN scoreA - scoreB ELSE scoreB - scoreA) < 10 * tieThreshold
    THEN "tie"
    ELSE IF scoreA > scoreB THEN "design_a" ELSE "design_b"

detailed(a) ==
    [heuristic_scores |-> a.heuristic_scores, heuristic_keys |-> a.heuristic_keys,
     summary |-> a.summary]

\* Comparison evaluator: both designs through the single-design path, then
\* the winner from the two overall scores.
evaluateComparison(okA, okB, outA, outB) ==
    LET a == evaluateSingle(okA, outA)
        b == evaluateSingle(okB, outB)
    IN  IF ~a.ok THEN a
        ELSE IF ~b.ok THEN b
        ELSE [ok |-> TRUE,
              analysis |-> [winner |-> decideWinner(a.analysis.overall_score,
                                                    b.analysis.overall_score),
                            design_a_score |-> a.analysis.overall_score,
                            design_b_score |-> b.analysis.overall_score,
                            design_a_analysis |-> detailed(a.analysis),
                            design_b_analysis |-> detailed(b.analysis)]]

statusOf(kind) == IF kind = "InvalidInput" THEN 400 ELSE 500

\* Transport boundary: the record, or the error as {detail: string}.
respond(r) ==
    IF r.ok THEN [status |-> 200, data |-> r.analysis]
    ELSE [status |-> statusOf(r.kind), data |-> [detail |-> r.kind]]

serve(req, outA, outB) ==
    IF req.endpoint = "/analyze"
    THEN respond(evaluateSingle(validImage(req.body.file), outA))
    ELSE IF req.endpoint = "/analyze-url"
    THEN respond(evaluateSingle(validUrl(req.body.url), outA))
    ELSE IF req.endpoint = "/compare"
    THEN respond(evaluateComparison(validImage(req.body.design_a),
                                    validImage(req.body.design_b), outA, outB))
    ELSE respond(evaluateComparison(validUrl(req.body.url),
                                    validUrl(req.body.comparison_url), outA, outB))

(***************************************************************************)
(* What the vision model can return for one design, and what can happen on *)
(* the network.                                                            *)
(***************************************************************************)
uniform(v) == [k \in KeySet |-> v]
withFirst(v, w) == [uniform(v) EXCEPT ![HeuristicKeys[1]] = w]
withoutLast(v) == [k \in KeySet \ {HeuristicKeys[Len(HeuristicKeys)]} |-> v]
withExtra(v) == [k \in KeySet \cup {"extra_key"} |-> v]

\* The keys of a score object in the order of the schema, a foreign key last.
schemaOrder(scores) ==
    LET present(k) == k \in DOMAIN scores
    IN  SelectSeq(HeuristicKeys \o <<"extra_key">>, present)

reverse(s) == [i \in 1..Len(s) |-> s[Len(s) + 1 - i]]

\* A JSON object is its values by key together with the order of its keys
\* in the text, which JSON.parse keeps and Object.entries follows.
JsonObject(scores, keys, overall) ==
    [kind |-> "json", heuristic_scores |-> scores, heuristic_keys |-> keys,
     overall_score |-> overall, summary |-> "summary"]

\* An output with its keys in the order of the schema.
Json(scores, overall) == JsonObject(scores, schemaOrder(scores), overall)

\* The same output with its keys in the opposite order.
JsonReordered(scores, overall) == JsonObject(scores, reverse(schemaOrder(scores)), overall)

\* Complete score sets in range: means of 5.0, 5.1, 5.2 and 5.3125, of 5.05 and
\* 5.075, and the ends 0 and 10; some with a self-reported overall score that
\* is not the one the scores give.
ValidOutputs ==
    {Json(uniform(50), 500), Json(withFirst(50, 66), 990), Json(withFirst(50, 82), 520),
     Json(withFirst(50, 100), 0), Json(withFirst(50, 58), 500),
     Json(withFirst(50, 62), 500),
     Json(uniform(0), 0), Json(uniform(100), 1000)}

\* A key missing, a key too many, a score of 11 and a score of -1, no JSON.
InvalidOutputs ==
    {Json(withoutLast(50), 500), Json(withExtra(50), 500),
     Json(withFirst(50, 110), 540), Json(withFirst(50, -10), 460),
     [kind |-> "garbage"]}

FailedCalls == {[kind |-> "unavailable"], [kind |-> "unreachable"]}

ModelOutcomes == ValidOutputs \cup InvalidOutputs \cup FailedCalls

\* One score set with its keys in the order of the schema and in another
\* order, and a second score set.
OrderOutcomes ==
    {Json(uniform(50), 500), JsonReordered(uniform(50), 500),
     JsonReordered(withFirst(50, 100), 530), [kind |-> "unavailable"]}

\* The outcomes explored with the whole user interface.
FewOutcomes ==
    {Json(uniform(50), 500), Json(withFirst(50, 100), 0),
     Json(withoutLast(50), 500), [kind |-> "unavailable"]}

AxiosError(code, response, message) ==
    [code |-> code, response |-> response, message |-> message]

\* Failures in which no response arrives.
NetworkErrors ==
    {AxiosError("ECONNREFUSED", null, "connect ECONNREFUSED"),
     AxiosError("ECONNABORTED", null, "timeout exceeded"),
     AxiosError("ERR_UNKNOWN", null, "")}

\* A response of a proxy in front of the service: no detail in its body.
gatewayResponse == [status |-> 502, data |-> [html |-> "Bad Gateway"]]

\* axios.post resolving whatever the status (validateStatus always true).
httpResultAnyStatus(response) == [resolved |-> TRUE, data |-> response.data]

\* axios.post: resolves with a 2xx response, rejects otherwise.
httpResult(response) ==
    IF response.status >= 200 /\ response.status < 300
    THEN [resolved |-> TRUE, data |-> response.data]
    ELSE [resolved |-> FALSE,
          err |-> AxiosError(IF response.status >= 500 THEN "ERR_BAD_RESPONSE"
                                                       ELSE "ERR_BAD_REQUEST",
                             response, "Request failed")]

\* The winner values a response can carry: the three of ComparisonAnalysis
\* and strings outside them (the type is not checked when a response arrives).
WinnerValues == {"design_a", "design_b", "tie", "Tie", "draw"}

\* The answers to a comparison with any of these strings as the winner.
AnyWinner(req) ==
    IF req.mode # "comparison" THEN {}
    ELSE LET answer == serve(req, Json(uniform(50), 500), Json(withFirst(50, 100), 530))
         IN  {httpResult([answer EXCEPT !.data.winner = w]) : w \in WinnerValues}

Rejected(err) == [resolved |-> FALSE, err |-> err]

\* Everything the await of a request can produce.
Results(req, outcomes) ==
    {httpResult(serve(req, a, b)) : a \in outcomes, b \in outcomes}
        \cup {Rejected(e) : e \in NetworkErrors}
        \cup {httpResult(gatewayResponse)}

(***************************************************************************)
(* App: the handlers handed to ImageUpload, and the mode selector.         *)
(***************************************************************************)
\* The result component App renders: AnalysisResult, ComparisonResult or none.
resultPanel ==
    IF isAnalyzing THEN "none"
    ELSE IF analysisResult # null THEN "analysis"
    ELSE IF comparisonResult # null THEN "comparison"
    ELSE "none"

\* What a change of App's state does to the result component: while the same
\* component stays rendered it keeps its state; when it is removed its state
\* is gone, a component rendered anew starts with isGeneratingPDF false, and
\* the generations the old one started go on without a component.
resultPanelFollows ==
    LET kept == resultPanel # "none" /\ resultPanel' = resultPanel
    IN  /\ isGeneratingPDF' = IF kept THEN isGeneratingPDF ELSE FALSE
        /\ pdfExports' = IF kept THEN pdfExports
                         ELSE [k \in DOMAIN pdfExports |->
                                 [pdfExports[k] EXCEPT !.mounted = FALSE]]

handleAnalysisComplete(result, imgs) ==
    /\ analysisResult' = result
    /\ uploadedImages' = imgs
    /\ comparisonResult' = null
    /\ isAnalyzing' = FALSE

handleComparisonComplete(result, imgs) ==
    /\ comparisonResult' = result
    /\ uploadedImages' = imgs
    /\ analysisResult' = null
    /\ isAnalyzing' = FALSE

\* handleAnalysisStart leaving the held results in place.
handleAnalysisStartKeepingResults ==
    /\ isAnalyzing' = TRUE
    /\ UNCHANGED <<analysisResult, comparisonResult>>

handleAnalysisStart ==
    /\ isAnalyzing' = TRUE
    /\ analysisResult' = null
    /\ comparisonResult' = null

resetResults ==
    /\ analysisResult' = null
    /\ comparisonResult' = null
    /\ isAnalyzing' = FALSE

\* A click on one of the two mode buttons.
setMode(m) ==
    /\ mode' = m
    /\ resetResults
    /\ UNCHANGED <<uploadedImages, images, error, inputMode, url, comparisonUrl, inflight>>
    /\ resultPanelFollows

(***************************************************************************)
(* ImageUpload.                                                            *)
(***************************************************************************)
setInputMode(im) ==
    /\ inputMode' = im
    /\ UNCHANGED <<appVars, images, error, url, comparisonUrl, inflight, pdfVars>>

\* The first URL input is rendered in URL mode.
setUrl(u) ==
    /\ inputMode = "url"
    /\ url' = u
    /\ UNCHANGED <<appVars, images, error, inputMode, comparisonUrl, inflight, pdfVars>>

\* The second URL input is rendered in URL mode when two designs are compared.
setComparisonUrl(u) ==
    /\ inputMode = "url"
    /\ mode = "comparison"
    /\ comparisonUrl' = u
    /\ UNCHANGED <<appVars, images, error, inputMode, url, inflight, pdfVars>>

\* The drop zone is rendered in upload mode while images are missing; it
\* filters the dropped files and calls onDrop with those it accepts.
onDrop(dropped) ==
    LET accepted == acceptedFiles(dropped)
        newImages == [i \in 1..Len(accepted) |-> UploadedImage(accepted[i])]
    IN  /\ inputMode = "upload"
        /\ needsMoreImages
        /\ IF mode = "single" /\ Len(accepted) > 1
           THEN /\ error' = "Please upload only one image for single design analysis"
                /\ UNCHANGED images
           ELSE IF mode = "comparison" /\ Len(images) + Len(accepted) > 2
           THEN /\ error' = "Please upload only two images for comparison"
                /\ UNCHANGED images
           ELSE /\ error' = ""
                /\ images' = IF mode = "single" THEN slice(newImages, 1)
                                                ELSE slice(images \o newImages, 2)
        /\ UNCHANGED <<appVars, inputMode, url, comparisonUrl, inflight, pdfVars>>

removeAt(s, index) == [i \in 1..(Len(s) - 1) |-> IF i < index THEN s[i] ELSE s[i + 1]]

\* The remove button of a preview; previews are rendered in upload mode and
\* the button is disabled while isAnalyzing.
removeImage(index) ==
    /\ inputMode = "upload"
    /\ ~isAnalyzing
    /\ index \in 1..Len(images)
    /\ images' = removeAt(images, index)
    /\ error' = ""
    /\ UNCHANGED <<appVars, inputMode, url, comparisonUrl, inflight, pdfVars>>

\* errorMessage looking at the error's own message before the response.
errorMessageOwnFirst(err) ==
    IF err.code = "ECONNREFUSED"
    THEN "Cannot connect to the analysis server. Make sure the backend is running."
    ELSE IF err.message # "" THEN err.message
    ELSE IF err.response # null /\ "detail" \in DOMAIN err.response.data
            /\ err.response.data.detail # ""
    THEN err.response.data.detail
    ELSE "Analysis failed. Please try again."

\* errorMessage without its initial default text.
errorMessageNoDefault(err) ==
    IF err.code = "ECONNREFUSED"
    THEN "Cannot connect to the analysis server. Make sure the backend is running."
    ELSE IF err.response # null /\ "detail" \in DOMAIN err.response.data
            /\ err.response.data.detail # ""
    THEN err.response.data.detail
    ELSE err.message

\* catch block of handleAnalysis: the message shown for a failed request.
errorMessage(err) ==
    IF err.code = "ECONNREFUSED"
    THEN "Cannot connect to the analysis server. Make sure the backend is running."
    ELSE IF err.response # null /\ "detail" \in DOMAIN err.response.data
            /\ err.response.data.detail # ""
    THEN err.response.data.detail
    ELSE IF err.message # "" THEN err.message
    ELSE "Analysis failed. Please try again."

\* The requests one run of handleAnalysis posts.
posts == <<request>>

\* handleAnalysis with a guard that does not look at isAnalyzing.
handleAnalysisWhileAnalyzing ==
    IF ~canAnalyze
    THEN UNCHANGED vars
    ELSE /\ Len(inflight) + Len(posts) <= MaxInFlight
         /\ handleAnalysisStart
         /\ error' = ""
         /\ inflight' = inflight \o posts
         /\ UNCHANGED <<mode, uploadedImages, images, inputMode, url, comparisonUrl>>
         /\ resultPanelFollows

\* handleAnalysis up to its await: guard, onAnalysisStart, setError(''), axios.post.
handleAnalysis ==
    IF ~canAnalyze \/ isAnalyzing
    THEN UNCHANGED vars
    ELSE /\ Len(inflight) + Len(posts) <= MaxInFlight
         /\ handleAnalysisStart
         /\ error' = ""
         /\ inflight' = inflight \o posts
         /\ UNCHANGED <<mode, uploadedImages, images, inputMode, url, comparisonUrl>>
         /\ resultPanelFollows

\* A failed request posted once more.
resendOnce(req) == <<req>>

\* The requests a failed request leaves behind it: none, nothing is re-sent.
resend(req) == <<>>

\* handleAnalysis after its await, for the request at position i.
settle(i, result) ==
    LET req == inflight[i]
    IN  IF result.resolved
        THEN /\ IF req.mode = "single"
                THEN handleAnalysisComplete(result.data, req.images)
                ELSE handleComparisonComplete(result.data, req.images)
             /\ inflight' = removeAt(inflight, i)
             /\ UNCHANGED <<mode, images, error, inputMode, url, comparisonUrl>>
             /\ resultPanelFollows
        ELSE /\ error' = errorMessage(result.err)
             /\ inflight' = removeAt(inflight, i) \o resend(req)
             /\ UNCHANGED <<appVars, images, inputMode, url, comparisonUrl, pdfVars>>

(***************************************************************************)
(* AnalysisResult and ComparisonResult: what is shown of a held result.    *)
(***************************************************************************)
\* Number.prototype.toFixed(0) of a value given in tenths, as an integer.
toFixed0(tenths) ==
    IF tenths >= 0 THEN (tenths + 5) \div 10 ELSE -((5 - tenths) \div 10)

\* The panels are rendered while a result is held and isAnalyzing is false.
analysisShown == analysisResult # null /\ ~isAnalyzing
comparisonShown == comparisonResult # null /\ ~isAnalyzing

\* The overall score printed on the single-analysis panel.
shownOverallScore == toFixed0(analysisResult.overall_score)

(***************************************************************************)
(* The tables keyed by the heuristic schema.                               *)
(***************************************************************************)
\* HEURISTIC_LABELS without its last entry.
HEURISTIC_LABELS_Incomplete ==
    "visibility_of_system_status" :> "Visibility of System Status" @@
    "match_system_real_world" :> "Match System & Real World" @@
    "user_control_freedom" :> "User Control & Freedom" @@
    "consistency_standards" :> "Consistency & Standards" @@
    "error_prevention" :> "Error Prevention" @@
    "recognition_rather_than_recall" :> "Recognition Rather Than Recall" @@
    "flexibility_efficiency" :> "Flexibility & Efficiency" @@
    "aesthetic_minimalist_design" :> "Aesthetic & Minimalist Design" @@
    "error_recovery" :> "Help Users Recognize & Recover from Errors" @@
    "help_documentation" :> "Help & Documentation" @@
    "color_accessibility_usage" :> "Color & Accessibility" @@
    "typography_hierarchy" :> "Typography & Hierarchy" @@
    "design_token_consistency" :> "Design System Consistency" @@
    "brand_voice_expression" :> "Brand Voice & Expression" @@
    "responsive_adaptability" :> "Responsive & Adaptable"

HEURISTIC_LABELS ==
    "visibility_of_system_status" :> "Visibility of System Status" @@
    "match_system_real_world" :> "Match System & Real World" @@
    "user_control_freedom" :> "User Control & Freedom" @@
    "consistency_standards" :> "Consistency & Standards" @@
    "error_prevention" :> "Error Prevention" @@
    "recognition_rather_than_recall" :> "Recognition Rather Than Recall" @@
    "flexibility_efficiency" :> "Flexibility & Efficiency" @@
    "aesthetic_minimalist_design" :> "Aesthetic & Minimalist Design" @@
    "error_recovery" :> "Help Users Recognize & Recover from Errors" @@
    "help_documentation" :> "Help & Documentation" @@
    "color_accessibility_usage" :> "Color & Accessibility" @@
    "typography_hierarchy" :> "Typography & Hierarchy" @@
    "design_token_consistency" :> "Design System Consistency" @@
    "brand_voice_expression" :> "Brand Voice & Expression" @@
    "responsive_adaptability" :> "Responsive & Adaptable" @@
    "interaction_feedback" :> "Interaction & Feedback"

HEURISTIC_DESCRIPTIONS ==
    "visibility_of_system_status" :> "The system should keep users informed about what is happening through appropriate feedback within reasonable time." @@
    "match_system_real_world" :> "The system should speak the users' language, with words, phrases and concepts familiar to the user." @@
    "user_control_freedom" :> "Users often choose system functions by mistake and need a clearly marked \"emergency exit\" to leave the unwanted state." @@
    "consistency_standards" :> "Users should not have to wonder whether different words, situations, or actions mean the same thing." @@
    "error_prevention" :> "Even better than good error messages is a careful design which prevents problems from occurring in the first place." @@
    "recognition_rather_than_recall" :> "Minimize the user's memory load by making objects, actions, and options visible." @@
    "flexibility_efficiency" :> "Accelerators may often speed up the interaction for expert users such that the system can cater to both inexperienced and experienced users." @@
    "aesthetic_minimalist_design" :> "Dialogues should not contain information which is irrelevant or rarely needed." @@
    "error_recovery" :> "Error messages should be expressed in plain language, precisely indicate the problem, and constructively suggest a solution." @@
    "help_documentation" :> "Even though it is better if the system can be used without documentation, it may be necessary to provide help and documentation." @@
    "color_accessibility_usage" :> "Colors should meet WCAG accessibility standards, communicate meaning semantically, and follow consistent usage patterns throughout the interface." @@
    "typography_hierarchy" :> "Text should establish clear information hierarchy using appropriate type scales, weights, spacing, and line heights to guide user attention." @@
    "design_token_consistency" :> "Visual properties should follow systematic design tokens for spacing, sizing, colors, and typography to ensure scalable consistency." @@
    "brand_voice_expression" :> "Design should authentically communicate brand personality, values, and voice while maintaining professional usability standards." @@
    "responsive_adaptability" :> "Interface should work seamlessly across different devices, screen sizes, and contexts with flexible, mobile-first design principles." @@
    "interaction_feedback" :> "User actions should provide immediate, clear, and appropriate feedback through visual states, transitions, and micro-interactions."

\* The source-URL table imported by AnalysisResult and ComparisonResult: one
\* URL for each key of the schema.
HEURISTIC_SOURCES == [k \in KeySet |-> <<"sourceURL", k>>]

\* The rows of the heuristic breakdown: Object.entries(analysis.heuristic_scores),
\* each with its label, description and source link.
heuristicRows(analysis) ==
    {[key |-> k, score |-> analysis.heuristic_scores[k],
      label |-> HEURISTIC_LABELS[k], description |-> HEURISTIC_DESCRIPTIONS[k],
      href |-> HEURISTIC_SOURCES[k]] : k \in DOMAIN analysis.heuristic_scores}

\* The panels App renders below the upload section.
panels ==
    {p \in {"loading", "analysis", "comparison", "instructions"} :
        \/ p = "loading" /\ isAnalyzing
        \/ p = "analysis" /\ analysisResult # null /\ ~isAnalyzing
        \/ p = "comparison" /\ comparisonResult # null /\ ~isAnalyzing
        \/ p = "instructions" /\ analysisResult = null /\ comparisonResult = null
                              /\ ~isAnalyzing}

\* ComparisonResult.getWinnerDisplay.
getWinnerDisplay(comparison) ==
    CASE comparison.winner = "design_a" ->
           [label |-> "Design A", color |-> "text-rh-status-success",
            bgColor |-> "bg-rh-status-success/20"]
      [] comparison.winner = "design_b" ->
           [label |-> "Design B", color |-> "text-rh-accent-base",
            bgColor |-> "bg-rh-surface-lighter"]
      [] OTHER ->
           [label |-> "Tie", color |-> "text-rh-text-primary",
            bgColor |-> "bg-rh-surface-lighter"]

\* The headline of the winner announcement, as its words.
winnerHeadline(comparison) ==
    IF comparison.winner = "tie" THEN <<"It's a Tie!">>
    ELSE <<getWinnerDisplay(comparison).label, "Wins!">>

\* The titles of the analysis cards rendered with isWinner true.
winnerCards(comparison) ==
    {c.title : c \in {card \in {[title |-> "Design A", isWinner |-> comparison.winner = "design_a"],
                                 [title |-> "Design B", isWinner |-> comparison.winner = "design_b"]} :
                        card.isWinner}}

\* String.fromCharCode for the codes of the preview labels.
fromCharCode(code) ==
    CASE code = 65 -> "A"
      [] code = 66 -> "B"
      [] OTHER -> "C"

\* The previews of the held images, each under its label: 'Design' in single
\* mode, 'Design ' and the letter of its position in comparison mode
\* (positions count from 0 in the code, from 1 here).
previews ==
    [index \in DOMAIN images |->
        [label |-> IF mode = "comparison"
                   THEN <<"Design", fromCharCode(65 + (index - 1))>>
                   ELSE <<"Design">>,
         image |-> images[index]]]

\* The keys of the heuristic breakdown from top to bottom:
\* Object.entries(analysis.heuristic_scores) follows the order of the object.
renderedKeys(analysis) == analysis.heuristic_keys

(***************************************************************************)
(* Specification.                                                          *)
(***************************************************************************)
Init ==
    /\ mode = "single"
    /\ analysisResult = null
    /\ comparisonResult = null
    /\ uploadedImages = <<>>
    /\ isAnalyzing = FALSE
    /\ images = <<>>
    /\ error = ""
    /\ inputMode = "upload"
    /\ url = <<>>
    /\ comparisonUrl = <<>>
    /\ inflight = <<>>
    /\ isGeneratingPDF = FALSE
    /\ pdfExports = <<>>

\* The whole user interface, with few files, URLs and model outcomes.
Next ==
    \/ \E m \in {"single", "comparison"} : setMode(m)
    \/ \E im \in {"upload", "url"} : setInputMode(im)
    \/ \E u \in FewUrlInputs : setUrl(u)
    \/ \E u \in FewUrlInputs : setComparisonUrl(u)
    \/ \E d \in Drops({okFile, pdfFile}) : onDrop(d)
    \/ \E i \in 1..2 : removeImage(i)
    \/ handleAnalysis
    \/ \E i \in DOMAIN inflight : \E r \in Results(inflight[i], FewOutcomes) : settle(i, r)

Spec == Init /\ [][Next]_vars

\* Uploads only, with every kind of file.
NextUpload ==
    \/ \E m \in {"single", "comparison"} : setMode(m)
    \/ \E d \in Drops(Files) : onDrop(d)
    \/ \E i \in 1..2 : removeImage(i)
    \/ handleAnalysis
    \/ \E i \in DOMAIN inflight : \E r \in Results(inflight[i], FewOutcomes) : settle(i, r)

SpecUpload == Init /\ [][NextUpload]_vars

\* URLs only, with every kind of input text.
NextUrl ==
    \/ \E m \in {"single", "comparison"} : setMode(m)
    \/ \E im \in {"upload", "url"} : setInputMode(im)
    \/ \E u \in UrlInputs : setUrl(u)
    \/ \E u \in UrlInputs : setComparisonUrl(u)
    \/ handleAnalysis
    \/ \E i \in DOMAIN inflight : \E r \in Results(inflight[i], FewOutcomes) : settle(i, r)

SpecUrl == Init /\ [][NextUrl]_vars

\* One valid image per design, with every outcome of the model call.
NextService ==
    \/ \E m \in {"single", "comparison"} : setMode(m)
    \/ \E d \in Drops({okFile}) : onDrop(d)
    \/ handleAnalysis
    \/ \E i \in DOMAIN inflight : \E r \in Results(inflight[i], ModelOutcomes) : settle(i, r)

SpecService == Init /\ [][NextService]_vars

\* One valid image per design, with model outputs that differ in key order.
NextOrder ==
    \/ \E m \in {"single", "comparison"} : setMode(m)
    \/ \E d \in Drops({okFile}) : onDrop(d)
    \/ \E i \in 1..2 : removeImage(i)
    \/ handleAnalysis
    \/ \E i \in DOMAIN inflight : \E r \in Results(inflight[i], OrderOutcomes) : settle(i, r)

SpecOrder == Init /\ [][NextOrder]_vars

\* Comparisons of two valid images, answered with any winner value.
NextWinner ==
    \/ \E m \in {"single", "comparison"} : setMode(m)
    \/ \E d \in Drops({okFile}) : onDrop(d)
    \/ \E i \in 1..2 : removeImage(i)
    \/ handleAnalysis
    \/ \E i \in DOMAIN inflight :
          \E r \in Results(inflight[i], FewOutcomes) \cup AnyWinner(inflight[i]) : settle(i, r)

SpecWinner == Init /\ [][NextWinner]_vars

(***************************************************************************)
(* AnalysisResult / ComparisonResult: the PDF export buttons.              *)
(***************************************************************************)
\* How a generation ends: the awaited calls resolve, or one of them throws
\* and the catch block reports it.
ExportEnds == {"resolved", "thrown"}

\* The flag after the try statement when every path runs the finally block,
\* except one that throws.
flagAfterExportUnlessThrown(end, flag) == IF end = "thrown" THEN flag ELSE FALSE

\* The flag after the try statement: finally { setIsGeneratingPDF(false) }.
flagAfterExport(end, flag) == FALSE

\* Both export buttons are rendered with the result and disabled while the
\* flag of the rendered component is set.
exportEnabled == resultPanel # "none" /\ ~isGeneratingPDF

\* A generation a handler awaits, begun by the rendered component.
generation(handler) == [handler |-> handler, mounted |-> TRUE]

\* A click on "Download PDF": setIsGeneratingPDF(true), then the generation
\* is awaited.
handleDownloadPDF ==
    /\ exportEnabled
    /\ Len(pdfExports) < MaxExports
    /\ isGeneratingPDF' = TRUE
    /\ pdfExports' = Append(pdfExports, generation("download"))
    /\ UNCHANGED <<appVars, images, error, inputMode, url, comparisonUrl, inflight>>

\* A click on "Share PDF": setIsGeneratingPDF(true), then the generation and
\* the share are awaited.
handleSharePDF ==
    /\ exportEnabled
    /\ Len(pdfExports) < MaxExports
    /\ isGeneratingPDF' = TRUE
    /\ pdfExports' = Append(pdfExports, generation("share"))
    /\ UNCHANGED <<appVars, images, error, inputMode, url, comparisonUrl, inflight>>

\* The k-th generation ends and its handler runs to its end.  The setter of
\* a component that is no longer rendered changes nothing.
finishExport(k, end) ==
    /\ k \in DOMAIN pdfExports
    /\ isGeneratingPDF' = IF pdfExports[k].mounted
                          THEN flagAfterExport(end, isGeneratingPDF)
                          ELSE isGeneratingPDF
    /\ pdfExports' = removeAt(pdfExports, k)
    /\ UNCHANGED <<appVars, images, error, inputMode, url, comparisonUrl, inflight>>

\* The user interface with the export buttons, on few inputs.
NextExport ==
    \/ \E m \in {"single", "comparison"} : setMode(m)
    \/ \E d \in Drops({okFile}) : onDrop(d)
    \/ \E i \in 1..2 : removeImage(i)
    \/ handleAnalysis
    \/ \E i \in DOMAIN inflight : \E r \in Results(inflight[i], FewOutcomes) : settle(i, r)
    \/ handleDownloadPDF
    \/ handleSharePDF
    \/ \E k \in DOMAIN pdfExports : \E end \in ExportEnds : finishExport(k, end)

SpecExport == Init /\ [][NextExport]_vars

\* Every generation that was started ends.
SpecExportFair ==
    SpecExport /\ WF_vars(\E k \in DOMAIN pdfExports : \E end \in ExportEnds : finishExport(k, end))

(***************************************************************************)
(* Properties.                                                             *)
(***************************************************************************)
\* The files carried by the requests awaiting their response.
SentFiles ==
    UNION {{inflight[i].images[j].file : j \in DOMAIN inflight[i].images} :
              i \in DOMAIN inflight}

\* C1: no request carries a file that is 0 bytes long or whose media type is
\* not an image type; such a file is refused before a request is posted.
C1_NoEmptyOrForeignFilePosted ==
    \A f \in SentFiles : f.size > 0 /\ f.type[1] = "image"

\* The state C1 fails in: an empty image is on its way to the service.
C1_EmptyFilePosted == emptyFile \in SentFiles

\* What a resolved request does: the callback of its mode, handed the
\* response record and the images of the request.
delivered(req, data) ==
    /\ IF req.mode = "single"
       THEN analysisResult' = data /\ comparisonResult' = null
       ELSE comparisonResult' = data /\ analysisResult' = null
    /\ uploadedImages' = req.images
    /\ isAnalyzing' = FALSE

schemaComplete(rec) ==
    /\ "heuristic_scores" \in DOMAIN rec
    /\ DOMAIN rec.heuristic_scores = KeySet
    /\ \A k \in KeySet : rec.heuristic_scores[k] >= 0 /\ rec.heuristic_scores[k] <= 100

\* The model outcomes the parser must refuse.
refused(out) ==
    \/ out.kind # "json"
    \/ DOMAIN out.heuristic_scores # KeySet
    \/ \E k \in DOMAIN out.heuristic_scores :
          out.heuristic_scores[k] < 0 \/ out.heuristic_scores[k] > 100

\* C3: every analysis held as a result (analysisResult, or design_a_analysis
\* and design_b_analysis of comparisonResult) has exactly the 16 keys and
\* every score in [0, 10]; a request whose model output misses a key or
\* carries a score out of range ends in an error message and stores nothing.
C3_OnlyCompleteRecordsHeld ==
    /\ [](analysisResult # null => schemaComplete(analysisResult))
    /\ [](comparisonResult # null =>
            /\ "design_a_analysis" \in DOMAIN comparisonResult
            /\ "design_b_analysis" \in DOMAIN comparisonResult
            /\ schemaComplete(comparisonResult.design_a_analysis)
            /\ schemaComplete(comparisonResult.design_b_analysis))
    /\ [][\A i \in DOMAIN inflight : \A a, b \in ModelOutcomes :
            (/\ refused(a) \/ (inflight[i].mode = "comparison" /\ refused(b))
             /\ settle(i, httpResult(serve(inflight[i], a, b))))
                => error' # "" /\ UNCHANGED appVars]_vars

\* A complete record is shown, and the message of a request whose model
\* output carried a score out of range.
C3_Witness ==
    /\ analysisShown
    /\ schemaComplete(analysisResult)
    /\ error = "ScoreOutOfRange"

abs(x) == IF x >= 0 THEN x ELSE -x

\* C4: for every comparison shown, winner is 'tie' exactly when the two
\* scores differ by less than 2 points, else 'design_a' when design_a_score
\* is the higher and 'design_b' when it is the lower.
C4_WinnerMatchesScores ==
    comparisonShown =>
        LET a == comparisonResult.design_a_score
            b == comparisonResult.design_b_score
            w == comparisonResult.winner
        IN  /\ (w = "tie") <=> (abs(a - b) < 20)
            /\ (w = "design_a") <=> (a - b >= 20)
            /\ (w = "design_b") <=> (b - a >= 20)

\* A comparison whose scores differ by exactly 2 points is shown.
C4_Witness ==
    /\ comparisonShown
    /\ comparisonResult.design_b_score - comparisonResult.design_a_score = 20
    /\ comparisonResult.winner = "design_b"

\* C5: the overall score shown for an analysis is the integer nearest to the
\* mean of its 16 heuristic scores times 10 (the sum of the scores in tenths
\* divided by 16), within [0, 100], whatever overall score the model reported.
C5_OverallIsRoundedMean ==
    analysisShown =>
        LET sum == SumOver(analysisResult.heuristic_scores, KeySet)
            d == shownOverallScore
        IN  /\ d >= 0 /\ d <= 100
            /\ 2 * abs(16 * d - sum) <= 16
            /\ analysisResult.overall_score = 10 * d
            /\ (analysisResult.heuristic_scores = uniform(50) => d = 50)

\* An analysis is shown whose mean is not a whole number of points.
C5_Witness ==
    /\ analysisShown
    /\ analysisResult.heuristic_scores = withFirst(50, 62)
    /\ shownOverallScore = 51

\* A step of handleAnalysis that passed its guard.
analysisStarted == handleAnalysis /\ canAnalyze /\ ~isAnalyzing

\* C6: a run of handleAnalysis that passes its guard posts exactly one
\* request; a request that settles, failed or not, leaves one request fewer
\* in flight, so nothing is re-sent; and only handleAnalysis posts requests.
C6_OneRequestPerClick ==
    /\ [][analysisStarted => Len(inflight') = Len(inflight) + 1]_vars
    /\ [][\A i \in DOMAIN inflight : \A r \in Results(inflight[i], FewOutcomes) :
            settle(i, r) => inflight' = removeAt(inflight, i)]_vars
    /\ [][Len(inflight') > Len(inflight) => analysisStarted]_vars

\* A request timed out and none is in flight: it was not re-sent.
C6_Witness ==
    /\ inflight = <<>>
    /\ isAnalyzing
    /\ error = "timeout exceeded"

\* C7: the request posted is decided by (inputMode, mode): /analyze with the
\* field file, /compare with design_a and design_b, /analyze-url with url,
\* /compare-urls with url and comparison_url; and the response of a
\* single-design request goes to onAnalysisComplete, that of a comparison
\* request to onComparisonComplete.
C7_OperationByModes ==
    /\ [][analysisStarted =>
            LET r == inflight'[Len(inflight')]
            IN  /\ (inputMode = "upload" /\ mode = "single") =>
                       r.endpoint = "/analyze" /\ DOMAIN r.body = {"file"}
                /\ (inputMode = "upload" /\ mode = "comparison") =>
                       r.endpoint = "/compare" /\ DOMAIN r.body = {"design_a", "design_b"}
                /\ (inputMode = "url" /\ mode = "single") =>
                       r.endpoint = "/analyze-url" /\ DOMAIN r.body = {"url"}
                /\ (inputMode = "url" /\ mode = "comparison") =>
                       r.endpoint = "/compare-urls"
                       /\ DOMAIN r.body = {"url", "comparison_url"}]_vars
    /\ [][\A i \in DOMAIN inflight : \A r \in Results(inflight[i], FewOutcomes) :
            (settle(i, r) /\ r.resolved) =>
                IF inflight[i].endpoint \in {"/analyze", "/analyze-url"}
                THEN analysisResult' = r.data /\ comparisonResult' = null
                ELSE comparisonResult' = r.data /\ analysisResult' = null]_vars

\* The answer to a /compare-urls request is held as the comparison result
\* while a /analyze request is in flight.
C7_Witness ==
    /\ comparisonResult # null
    /\ uploadedImages = <<>>
    /\ \E i \in DOMAIN inflight : inflight[i].endpoint = "/analyze"

\* The message C8 prescribes for a failed request.
prescribedMessage(err) ==
    LET hasDetail == /\ err.response # null
                     /\ "detail" \in DOMAIN err.response.data
                     /\ err.response.data.detail # ""
    IN  CASE err.code = "ECONNREFUSED" ->
               "Cannot connect to the analysis server. Make sure the backend is running."
          [] err.code # "ECONNREFUSED" /\ hasDetail -> err.response.data.detail
          [] err.code # "ECONNREFUSED" /\ ~hasDetail /\ err.message # "" -> err.message
          [] OTHER -> "Analysis failed. Please try again."

\* C8: a failed request shows a non-empty message: the fixed text for
\* ECONNREFUSED, else the detail of the response body when it has one, else
\* the error's own message, else 'Analysis failed. Please try again.'.
C8_ErrorMessageOrder ==
    [][\A i \in DOMAIN inflight : \A r \in Results(inflight[i], FewOutcomes) :
          (settle(i, r) /\ ~r.resolved) =>
              error' # "" /\ error' = prescribedMessage(r.err)]_vars

\* A request failed with an error that has neither code, detail nor message.
C8_Witness ==
    /\ error = "Analysis failed. Please try again."
    /\ inflight = <<>>

isTrimmed(s) == s = <<>> \/ (s[1] # " " /\ s[Len(s)] # " ")

\* sent is typed without the white space at its two ends.
trimmedFrom(sent, typed) ==
    /\ isTrimmed(sent)
    /\ \E a \in 0..Len(typed) :
          /\ a + Len(sent) <= Len(typed)
          /\ \A j \in 1..a : typed[j] = " "
          /\ \A j \in 1..Len(sent) : typed[a + j] = sent[j]
          /\ \A j \in (a + Len(sent) + 1)..Len(typed) : typed[j] = " "

\* C9: in URL mode no request is posted while a required URL is empty after
\* trimming (url, and comparison_url too when two designs are compared), and
\* every URL posted is the typed text trimmed.
C9_NoEmptyUrlPosted ==
    /\ [](\A i \in DOMAIN inflight :
            /\ "url" \in DOMAIN inflight[i].body => inflight[i].body.url # <<>>
            /\ "comparison_url" \in DOMAIN inflight[i].body =>
                   inflight[i].body.comparison_url # <<>>)
    /\ [][(analysisStarted /\ inputMode = "url") =>
            LET r == inflight'[Len(inflight')]
            IN  /\ trimmedFrom(r.body.url, url)
                /\ mode = "comparison" => trimmedFrom(r.body.comparison_url, comparisonUrl)]_vars

\* Two URLs typed with spaces around them are on their way without them.
C9_Witness ==
    /\ url = <<" ", "a", " ">>
    /\ comparisonUrl = <<" ", "a", " ">>
    /\ \E i \in DOMAIN inflight :
          /\ inflight[i].endpoint = "/compare-urls"
          /\ inflight[i].body = [url |-> <<"a">>, comparison_url |-> <<"a">>]

max(a, b) == IF a >= b THEN a ELSE b

\* The timeout of the single-design request of each input mode.
singleTimeout(e) == IF e = "/compare-urls" THEN urlTimeout ELSE uploadTimeout

\* C10 as stated: the timeout of a comparison request is the maximum of the
\* two single-design timeouts of its input mode: 60 s for /compare and
\* 120 s for /compare-urls.
C10_ComparisonTimeoutIsMax ==
    \A i \in DOMAIN inflight :
        inflight[i].endpoint \in {"/compare", "/compare-urls"} =>
            inflight[i].timeout = max(singleTimeout(inflight[i].endpoint),
                                      singleTimeout(inflight[i].endpoint))

\* C10 amended: /analyze and /compare time out at 60 s, /analyze-url at
\* 120 s and /compare-urls at 180 s, which is more than the 120 s of one URL
\* and less than the 240 s of two.
C10_TimeoutPerEndpoint ==
    \A i \in DOMAIN inflight :
        LET r == inflight[i]
        IN  /\ r.endpoint \in {"/analyze", "/compare"} => r.timeout = 60000
            /\ r.endpoint = "/analyze-url" => r.timeout = 120000
            /\ r.endpoint = "/compare-urls" =>
                   r.timeout = 180000 /\ r.timeout > 120000 /\ r.timeout < 2 * 120000

\* A /compare-urls request and a /compare request are in flight.
C10_Witness ==
    /\ \E i \in DOMAIN inflight : inflight[i].endpoint = "/compare-urls"
    /\ \E i \in DOMAIN inflight : inflight[i].endpoint = "/compare"

\* Every request in flight was abandoned: isAnalyzing is false and no result
\* is held, which only resetResults leaves behind it (a completion callback
\* leaves a result, handleAnalysisStart leaves isAnalyzing true), so no
\* request was started since the last click on a mode button.
abandoned ==
    /\ inflight # <<>>
    /\ ~isAnalyzing
    /\ analysisResult = null
    /\ comparisonResult = null

\* C11: the response or failure of a request abandoned by a click on a mode
\* button sets neither analysisResult, comparisonResult, uploadedImages,
\* isAnalyzing nor the error message.
C11_AbandonedRequestSetsNothing ==
    [][\A i \in DOMAIN inflight : \A r \in Results(inflight[i], FewOutcomes) :
          (abandoned /\ settle(i, r)) => UNCHANGED <<appVars, error>>]_vars

\* C12: the response or failure of a request started before another one that
\* is still awaiting its response changes nothing of what is displayed: it
\* neither replaces nor pre-empts the outcome of the later request. inflight
\* is in the order of the clicks; the two requests are taken to differ, so
\* that the step is not one the later request could have made itself.
C12_EarlierRequestNeverPreempts ==
    [][\A i \in DOMAIN inflight : \A r \in Results(inflight[i], FewOutcomes) :
          (/\ i < Len(inflight)
           /\ inflight[i] # inflight[Len(inflight)]
           /\ settle(i, r)) => UNCHANGED <<appVars, error>>]_vars

\* A comparison request with its two inputs exchanged.
swapInputs(req) ==
    [req EXCEPT
       !.body = IF req.endpoint = "/compare"
                THEN [design_a |-> req.body.design_b, design_b |-> req.body.design_a]
                ELSE [url |-> req.body.comparison_url, comparison_url |-> req.body.url],
       !.images = [j \in DOMAIN req.images |-> req.images[Len(req.images) + 1 - j]]]

flip(winner) ==
    CASE winner = "design_a" -> "design_b"
      [] winner = "design_b" -> "design_a"
      [] OTHER -> winner

\* C13: when a comparison is answered, the same comparison with its two
\* inputs exchanged (each design keeping its model output) is answered with
\* design_a_score and design_b_score exchanged and the winner flipped, a tie
\* staying a tie.
C13_SwapSymmetric ==
    [][\A i \in DOMAIN inflight : \A a, b \in ModelOutcomes :
          LET res == httpResult(serve(inflight[i], a, b))
          IN  (inflight[i].mode = "comparison" /\ res.resolved /\ settle(i, res)) =>
                  LET sw == httpResult(serve(swapInputs(inflight[i]), b, a))
                  IN  /\ sw.resolved
                      /\ sw.data.design_a_score = comparisonResult'.design_b_score
                      /\ sw.data.design_b_score = comparisonResult'.design_a_score
                      /\ sw.data.winner = flip(comparisonResult'.winner)]_vars

\* A comparison won by design B by one point more than the threshold.
C13_Witness ==
    /\ comparisonShown
    /\ comparisonResult.winner = "design_b"
    /\ comparisonResult.design_a_score = 500
    /\ comparisonResult.design_b_score = 530

\* The ten classic usability heuristics and the six design-system
\* heuristics, in the order of the schema.
classicHeuristics == {HeuristicKeys[i] : i \in 1..10}
designSystemHeuristics == {HeuristicKeys[i] : i \in 11..Len(HeuristicKeys)}

C15_NoFileOverMaxSize ==
    /\ [](\A j \in DOMAIN images : images[j].file.size <= 10 * 1024 * 1024)
    /\ [](\A f \in SentFiles : f.size <= 10 * 1024 * 1024)
    /\ [][\A d \in Drops(Files) :
            (/\ Len(d) = 1
             /\ d[1].size = 10 * 1024 * 1024
             /\ d[1].type[1] = "image"
             /\ onDrop(d)) => \E j \in DOMAIN images' : images'[j].file = d[1]]_vars

\* An image of exactly 10 MB is held and on its way to the service.
C15_Witness ==
    /\ \E j \in DOMAIN images : images[j].file.size = 10 * 1024 * 1024
    /\ \E f \in SentFiles : f.size = 10 * 1024 * 1024

\* C16: after a drop in which a file was refused for its type or its size,
\* the error message is not empty.
C16_RefusalIsShown ==
    [][\A d \in Drops(Files) :
          (/\ onDrop(d)
           /\ \E k \in DOMAIN d : ~fileAccepted(d[k]) \/ d[k].size > 10 * 1024 * 1024)
              => error' # ""]_vars

\* C17: when the one request in flight completes, by a response, an error
\* response, a network failure or a timeout, isAnalyzing is false afterwards.
C17_AnalysingEndsWithTheRequest ==
    [][\A i \in DOMAIN inflight : \A r \in Results(inflight[i], FewOutcomes) :
          (Len(inflight) = 1 /\ isAnalyzing /\ settle(i, r)) => ~isAnalyzing']_vars

\* C18: at most one request is in flight.
C18_AtMostOneInFlight == Len(inflight) <= 1

\* C19: a single-design result is held only in single mode, a comparison
\* result only in comparison mode.
C19_ResultMatchesMode ==
    /\ analysisResult # null => mode = "single"
    /\ comparisonResult # null => mode = "comparison"

\* C20: no more images are held than the mode takes: one in single mode, two
\* in comparison mode.
C20_ImagesWithinModeLimit ==
    Len(images) <= (IF mode = "single" THEN 1 ELSE 2)

\* C21: the heuristics of every held analysis are rendered in the order of
\* the schema, whatever the order of the keys in the response.
C21_RenderedInSchemaOrder ==
    /\ analysisResult # null => renderedKeys(analysisResult) = HeuristicKeys
    /\ comparisonResult # null =>
          /\ renderedKeys(comparisonResult.design_a_analysis) = HeuristicKeys
          /\ renderedKeys(comparisonResult.design_b_analysis) = HeuristicKeys

\* The image shown under a label.
shownAs(label) == {previews[i].image : i \in {j \in DOMAIN previews : previews[j].label = label}}

\* C22: the request of a comparison of uploads carries as design_a the file
\* of the one image shown as 'Design A' and as design_b the file of the one
\* image shown as 'Design B'.
C22_LabelsMatchFormFields ==
    [][(analysisStarted /\ inputMode = "upload" /\ mode = "comparison") =>
          LET r == inflight'[Len(inflight')]
          IN  /\ \E a \in shownAs(<<"Design", "A">>) :
                    shownAs(<<"Design", "A">>) = {a} /\ r.body.design_a = a.file
              /\ \E b \in shownAs(<<"Design", "B">>) :
                    shownAs(<<"Design", "B">>) = {b} /\ r.body.design_b = b.file]_vars

\* The empty image is shown as 'Design A', the 10 MB one as 'Design B', and
\* they are on their way as design_a and design_b.
C22_Witness ==
    /\ mode = "comparison"
    /\ shownAs(<<"Design", "A">>) = {UploadedImage(emptyFile)}
    /\ shownAs(<<"Design", "B">>) = {UploadedImage(okFile)}
    /\ \E i \in DOMAIN inflight :
          /\ inflight[i].endpoint = "/compare"
          /\ inflight[i].body = [design_a |-> emptyFile, design_b |-> okFile]

\* C23: whatever winner value was received, the comparison view agrees with
\* itself: 'design_a' announces and marks Design A only, 'design_b' Design B
\* only, 'tie' announces a tie and marks neither; never are both designs
\* marked, and the headline names no winner other than one of the two designs.
C23_WinnerViewConsistent ==
    comparisonResult # null =>
        LET headline == winnerHeadline(comparisonResult)
            marked == winnerCards(comparisonResult)
        IN  /\ comparisonResult.winner = "design_a" =>
                   headline = <<"Design A", "Wins!">> /\ marked = {"Design A"}
            /\ comparisonResult.winner = "design_b" =>
                   headline = <<"Design B", "Wins!">> /\ marked = {"Design B"}
            /\ comparisonResult.winner = "tie" =>
                   headline = <<"It's a Tie!">> /\ marked = {}
            /\ Cardinality(marked) <= 1
            /\ \/ headline = <<"It's a Tie!">>
               \/ \E d \in {"Design A", "Design B"} : headline = <<d, "Wins!">>

\* C24: exactly one of the four panels is shown; analysisResult and
\* comparisonResult are never both held, and neither is held while
\* isAnalyzing is true.
C24_ExactlyOnePanel ==
    /\ Cardinality(panels) = 1
    /\ ~(analysisResult # null /\ comparisonResult # null)
    /\ isAnalyzing => analysisResult = null /\ comparisonResult = null

\* A result is on display while a request started earlier is still awaited.
C24_Witness ==
    /\ panels = {"comparison"}
    /\ inflight # <<>>

\* The files a request carries, in the order of its form fields.
sentImages(req) ==
    CASE req.endpoint = "/analyze" -> <<req.body.file>>
      [] req.endpoint = "/compare" -> <<req.body.design_a, req.body.design_b>>
      [] OTHER -> <<>>

\* C25: the images stored with a result are those of the files sent in the
\* request that produced it, none for a URL request, whatever happened to the
\* held images, the input mode or other requests since the click.
C25_StoredImagesAreThoseSent ==
    [][\A i \in DOMAIN inflight : \A r \in Results(inflight[i], FewOutcomes) :
          (r.resolved /\ settle(i, r)) =>
              [j \in DOMAIN uploadedImages' |-> uploadedImages'[j].file]
                  = sentImages(inflight[i])]_vars

\* A result is held with the image it was computed from, which is no longer
\* among the held images.
C25_Witness ==
    /\ analysisResult # null
    /\ uploadedImages = <<UploadedImage(okFile)>>
    /\ images = <<>>
    /\ inputMode = "url"

\* The guard of handleAnalysis fails: a request is being analysed, or the
\* inputs are not complete (uploads: not exactly one image in single mode,
\* not exactly two in comparison mode; URLs: a required one empty).
guardFails ==
    \/ isAnalyzing
    \/ inputMode = "upload" /\ Len(images) # (IF mode = "single" THEN 1 ELSE 2)
    \/ inputMode = "url" /\ trim(url) = <<>>
    \/ inputMode = "url" /\ mode = "comparison" /\ trim(comparisonUrl) = <<>>

\* C26: when its guard fails, handleAnalysis changes nothing: no request is
\* posted, onAnalysisStart is not called, and images, error, the results and
\* isAnalyzing stay as they are.
C26_GuardedClickChangesNothing ==
    [][(guardFails /\ handleAnalysis) => UNCHANGED vars]_vars

\* A click would be refused twice over: a request is being analysed and the
\* second image of the comparison is missing, with an error message on display.
C26_Witness ==
    /\ isAnalyzing
    /\ inflight # <<>>
    /\ mode = "comparison"
    /\ inputMode = "upload"
    /\ Len(images) = 1
    /\ error # ""

\* The number of files of a drop that pass the type and size filters.
passing(d) == Cardinality({k \in DOMAIN d : fileAccepted(d[k]) /\ d[k].size <= 10 * 1024 * 1024})

\* C27: a drop that would exceed the limit (in comparison mode the held
\* images and the accepted files are more than two, in single mode more than
\* one file is accepted) leaves the held images as they were and sets a
\* non-empty error message.
C27_ExcessDropRejectedWithMessage ==
    [][\A d \in Drops(Files) :
          (/\ onDrop(d)
           /\ \/ mode = "comparison" /\ Len(images) + passing(d) > 2
              \/ mode = "single" /\ passing(d) > 1)
              => images' = images /\ error' # ""]_vars

\* C28 as stated: an export that was started releases the flag of its component when
\* its generation ends, resolved or thrown, the buttons do not stay disabled,
\* and at most one export runs at a time.
C28_AtMostOneExportRuns ==
    /\ [][\A k \in DOMAIN pdfExports : \A end \in ExportEnds :
            finishExport(k, end) /\ pdfExports[k].mounted => ~isGeneratingPDF']_vars
    /\ [](isGeneratingPDF ~> ~isGeneratingPDF)
    /\ [](Len(pdfExports) <= 1)

\* C28 amended: an export releases the flag of its component when its
\* generation ends, resolved or thrown; the flag is set exactly while an
\* export of the rendered component runs, so the buttons do not stay
\* disabled; and at most one export of the rendered component runs at a time.
C28_FlagReleasedPerComponent ==
    /\ [][\A k \in DOMAIN pdfExports : \A end \in ExportEnds :
            finishExport(k, end) /\ pdfExports[k].mounted => ~isGeneratingPDF']_vars
    /\ [](isGeneratingPDF ~> ~isGeneratingPDF)
    /\ [](isGeneratingPDF <=> \E k \in DOMAIN pdfExports : pdfExports[k].mounted)
    /\ [](Cardinality({k \in DOMAIN pdfExports : pdfExports[k].mounted}) <= 1)

\* An export started by a component that was since removed is still running
\* while the component rendered after it has its buttons enabled.
C28_Witness ==
    /\ resultPanel # "none"
    /\ ~isGeneratingPDF
    /\ \E k \in DOMAIN pdfExports : ~pdfExports[k].mounted

====
